---------------------------- MODULE Spec2Model ----------------------------
(***************************************************************************)
(* A model of the Poll Coordination Core: the Redis-backed repository      *)
(* (PollsRepository), the service (PollsService), the REST controller      *)
(* (PollsController) and the socket.io gateway (PollsGateway) with its     *)
(* exception filter (WsCatchAllFilter).                                    *)
(*                                                                         *)
(* Every handler is an async function.  It is split at its awaits on the   *)
(* store: one step per Redis command (JSON.SET, JSON.DEL, JSON.GET) and    *)
(* one step for the continuation that emits or returns.  A handler in      *)
(* flight is a task; tasks of different handlers interleave freely.        *)
(***************************************************************************)
EXTENDS Naturals, FiniteSets, Bags, TLC

\* ------------------------------------------------------------------ bounds
MaxPolls == 1
MaxUsers == 2
MaxConns == 2
MaxNoms  == 1
MaxTasks == 2
MaxSvcNoms == 2
MaxSessions == 2   \* polls that exist side by side

PollIDs == 1..MaxPolls
UserIDs == 1..MaxUsers
Conns   == 1..MaxConns
NomIDs  == 1..MaxNoms
SvcNomIDs == 1..MaxSvcNoms

\* The inputs of the service's methods when they are called directly.
CreatePollFields ==
  { [topic |-> "lunch", votesPerVoter |-> 2, name |-> "Alice"],
    [topic |-> "dinner", votesPerVoter |-> 1, name |-> "Bob"] }
Names  == {"Alice", "Bob"}
Texts  == {"Pizza"}
\* The inputs of the requests in a session of the real-time gateway.
\* A token nobody signed: it names the first poll and its creator's user id.
ForgedTokens == {[pollID |-> 1, name |-> "Mallory", sub |-> 1]}
CreatePollDto == [topic : {"lunch"}, votesPerVoter : {2}, name : {"Alice"}]
JoinNames == {"Bob"}

\* ------------------------------------------------------------------ values
\* JSON.GET of a key that does not exist answers nil; JSON.parse(null) is null.
Null == [tag |-> "null"]
\* The value of an async function that ends without a return statement.
Undefined == [tag |-> "undefined"]
\* An object with no keys: {}.
EmptyMap == [x \in {} |-> x]

\* JavaScript truthiness of what a handler may hold in updatedPoll.
Truthy(v) == v.tag = "poll"

AuthPayload(pollID, userID, name) ==
  [pollID |-> pollID, userID |-> userID, name |-> name]
NoAuth == AuthPayload(0, 0, "")

\* jwtService.sign({pollID, name}, {subject: userID})
Sign(pollID, name, userID) == [pollID |-> pollID, name |-> name, sub |-> userID]
\* What the guards bind to the request or socket from a verified token.
Decode(token) == AuthPayload(token.pollID, token.sub, token.name)

Exception(type) == [tag |-> "exception", type |-> type]

VARIABLES
  polls,      \* the store: polls[p] is the document under key polls:<p>, or Null
  nextPoll,   \* how many poll ids createPollID has handed out
  nextUser,   \* how many user ids createUserID has handed out
  nextNom,    \* how many nomination ids createNominationID has handed out
  tokens,     \* the access tokens signed so far
  conn,       \* conn[c]: the socket c, its status and its auth payload
  rooms,      \* rooms[p]: the sockets in the socket.io room named p
  tasks,      \* the bag of handlers and service calls in flight
  out,        \* what the last step sent or returned (NoOut when nothing)
  client      \* client[c]: the poll of the last poll_updated the client of
              \* socket c received (Undefined before the first); kept only
              \* where the clients are part of the specification

vars == <<polls, nextPoll, nextUser, nextNom, tokens, conn, rooms, tasks, out, client>>

\* What a step sends or returns: the event or method name, the sockets a
\* message is addressed to, the payload, and the handler (or request) it is from.
NoOut == [type |-> "none", name |-> "", to |-> {}, payload |-> Null, from |-> Null]
\* server -> client message
Emit(event, to, payload, from) ==
  [type |-> "emit", name |-> event, to |-> to, payload |-> payload, from |-> from]
\* the value an HTTP request or a direct service call resolves to
Return(op, payload, from) ==
  [type |-> "return", name |-> op, to |-> {}, payload |-> payload, from |-> from]
\* the rejection of an HTTP request or a direct service call
Reject(op, type, from) ==
  [type |-> "error", name |-> op, to |-> {}, payload |-> Exception(type), from |-> from]

Task(caller, op, who, auth, userID, name, text, nomID, pc) ==
  [caller |-> caller, op |-> op, who |-> who, pollID |-> auth.pollID,
   actor |-> auth.userID, userID |-> userID, name |-> name, text |-> text,
   nomID |-> nomID, pc |-> pc, poll |-> Undefined]

\* Handlers are anonymous: the ones in flight form a bag of task records.
InFlight == BagToSet(tasks)
HasFreeSlot == BagCardinality(tasks) < MaxTasks
Spawn(task) == tasks (+) SetToBag({task})
Retire(k) == tasks (-) SetToBag({k})
Advance(k, pc, poll) == Retire(k) (+) SetToBag({[k EXCEPT !.pc = pc, !.poll = poll]})

\* ------------------------------------------------------------- the store
\* RedisJSON, as the repository uses it.  JSON.stringify followed by
\* JSON.parse gives back the same strings, numbers, booleans and objects, so a
\* document is kept as the value it encodes.

\* (a set that reads the object, adds the member and writes the object back
\* would lose members; here: the object is replaced by the one member)
JsonSet_WholeObject(doc, field, k, v) ==
  [doc EXCEPT ![field] = [x \in {k} |-> v]]

\* JSON.SET key .<field>.<k> v : create or replace one member of an object.
JsonSet(doc, field, k, v) ==
  LET m == doc[field]
  IN  [doc EXCEPT ![field] = [x \in (DOMAIN m) \cup {k} |-> IF x = k THEN v ELSE m[x]]]

\* JSON.DEL key .<field>.<k> : delete one member; 0 paths deleted is no error,
\* neither for a missing member nor for a missing key.
JsonDel(doc, field, k) ==
  IF doc = Null THEN Null
  ELSE LET m == doc[field]
       IN  [doc EXCEPT ![field] = [x \in (DOMAIN m) \ {k} |-> m[x]]]

\* ---------------------------------------------------------- PollsRepository
\* (a createPoll that enters the creator into participants)
InitialPoll_CreatorJoined(pollID, topic, votesPerVoter, userID) ==
  [tag |-> "poll", id |-> pollID, topic |-> topic, votesPerVoter |-> votesPerVoter,
   participants |-> [x \in {userID} |-> "admin"], nominations |-> EmptyMap,
   adminID |-> userID, hasStarted |-> FALSE]

InitialPoll(pollID, topic, votesPerVoter, userID) ==
  [tag |-> "poll", id |-> pollID, topic |-> topic, votesPerVoter |-> votesPerVoter,
   participants |-> EmptyMap, nominations |-> EmptyMap, adminID |-> userID,
   hasStarted |-> FALSE]

\* JSON.SET of a path below the root fails when the key does not exist
\* ("new objects must be created at the root"); the repository rethrows it.
SetFails(pollID) == polls[pollID] = Null

\* (an addParticipant that keeps the name of an identity already present)
RepoAddParticipant_KeepFirst(doc, userID, name) ==
  IF userID \in DOMAIN doc.participants THEN doc
  ELSE JsonSet(doc, "participants", userID, name)

RepoAddParticipant(doc, userID, name) == JsonSet(doc, "participants", userID, name)

\* (a removeParticipant that deletes the whole participants object)
RepoRemoveParticipant_All(doc, userID) ==
  IF doc = Null THEN Null ELSE [doc EXCEPT !.participants = EmptyMap]


\* (a removeParticipant that takes the admin's role away with the admin's entry)
RepoRemoveParticipant_RevokesAdmin(doc, userID) ==
  IF doc = Null THEN Null
  ELSE [JsonDel(doc, "participants", userID)
          EXCEPT !.adminID = IF @ = userID THEN 0 ELSE @]

RepoRemoveParticipant(doc, userID) == JsonDel(doc, "participants", userID)
\* (an addNomination that also makes the nominator the admin)
RepoAddNomination_TakesAdmin(doc, nominationID, nomination) ==
  [JsonSet(doc, "nominations", nominationID, nomination)
     EXCEPT !.adminID = nomination.userID]

RepoAddNomination(doc, nominationID, nomination) ==
  JsonSet(doc, "nominations", nominationID, nomination)

\* (a removeNomination that deletes the whole nominations object)
RepoRemoveNomination_All(doc, nominationID) ==
  IF doc = Null THEN Null ELSE [doc EXCEPT !.nominations = EmptyMap]

RepoRemoveNomination(doc, nominationID) == JsonDel(doc, "nominations", nominationID)

Nomination(userID, text) == [userID |-> userID, text |-> text]

\* ------------------------------------------------------- WsCatchAllFilter
\* (a filter that answers to the whole room)
WsCatchAllFilter_Room(exception, k) ==
  Emit("exception", rooms[k.pollID],
       IF exception = "BadRequestException" THEN Exception("BadRequest")
       ELSE IF exception = "WsUnauthorizedException" THEN Exception("Unauthorized")
       ELSE Exception("Unknown"),
       k)

\* The filter answers on the socket of the failed handler, and on no other.
WsCatchAllFilter(exception, k) ==
  Emit("exception", {k.who},
       IF exception = "BadRequestException" THEN Exception("BadRequest")
       ELSE IF exception = "WsUnauthorizedException" THEN Exception("Unauthorized")
       ELSE Exception("Unknown"),
       k)

\* Where an exception of task k ends up.  The gateway's filter covers the
\* @SubscribeMessage handlers; the lifecycle hooks handleConnection and
\* handleDisconnect are called outside it and their rejection reaches no one;
\* an HTTP request or a direct call is rejected to its caller.
Raise(k, exception) ==
  /\ tasks' = Retire(k)
  /\ out' = IF k.caller \in {"remove_participant", "nominate", "remove_nomination"}
              THEN WsCatchAllFilter(exception, k)
            ELSE IF k.caller \in {"handleConnection", "handleDisconnect"}
              THEN NoOut
            ELSE Reject(k.op, exception, k)

\* -------------------------------------------------------------------- Init
Init ==
  /\ polls = [p \in PollIDs |-> Null]
  /\ nextPoll = 0
  /\ nextUser = 0
  /\ nextNom = 0
  /\ tokens = {}
  /\ conn = [c \in Conns |-> [status |-> "idle", auth |-> NoAuth]]
  /\ rooms = [p \in PollIDs |-> {}]
  /\ tasks = EmptyBag
  /\ out = NoOut
  /\ client = [c \in Conns |-> Undefined]

\* ------------------------------------------- PollsController / PollsService
\* Poll ids are not guessable: a request names an id that createPollID drew.
Issued(pollID) == pollID <= nextPoll

\* POST /polls: createPoll writes the document and its expiry in one MULTI.
CreatePoll(topic, votesPerVoter, name) ==
  /\ nextPoll < MaxPolls
  /\ nextUser < MaxUsers
  /\ LET pollID == nextPoll + 1
         userID == nextUser + 1
         createdPoll == InitialPoll(pollID, topic, votesPerVoter, userID)
         signedString == Sign(createdPoll.id, name, userID)
     IN  /\ polls' = [polls EXCEPT ![pollID] = createdPoll]
         /\ tokens' = tokens \cup {signedString}
         /\ out' = Return("createPoll",
                          [tag |-> "created", poll |-> createdPoll,
                           accessToken |-> signedString],
                          [topic |-> topic, votesPerVoter |-> votesPerVoter,
                           name |-> name])
  /\ nextPoll' = nextPoll + 1
  /\ nextUser' = nextUser + 1
  /\ UNCHANGED <<nextNom, conn, rooms, tasks, client>>

\* POST /polls/join: one read; joinedPoll.id of null is a TypeError.  A user
\* id drawn for a request that fails is never seen again and is not counted.
JoinPoll(pollID, name) ==
  /\ Issued(pollID)
  /\ nextUser < MaxUsers
  /\ LET userID == nextUser + 1
         joinedPoll == polls[pollID]
         req == [pollID |-> pollID, name |-> name]
     IN  IF joinedPoll = Null
           THEN /\ out' = Reject("joinPoll", "TypeError", req)
                /\ UNCHANGED <<tokens, nextUser>>
           ELSE /\ tokens' = tokens \cup {Sign(joinedPoll.id, name, userID)}
                /\ nextUser' = nextUser + 1
                /\ out' = Return("joinPoll",
                                 [tag |-> "joined", poll |-> joinedPoll,
                                  accessToken |-> Sign(joinedPoll.id, name, userID)],
                                 req)
  /\ UNCHANGED <<polls, nextPoll, nextNom, conn, rooms, tasks, client>>

\* POST /polls/rejoin: the controller's guard binds the token's fields to the
\* request; rejoinPoll passes them to the repository's addParticipant.
RejoinPoll(token) ==
  /\ token \in tokens
  /\ HasFreeSlot
  /\ LET auth == Decode(token)
     IN  tasks' = Spawn(Task("rejoinPoll", "addParticipant", 0, auth,
                             auth.userID, auth.name, "", 0, "set"))
  /\ out' = NoOut
  /\ UNCHANGED <<polls, nextPoll, nextUser, nextNom, tokens, conn, rooms, client>>

\* --------------------------------------------------------- GatewayAdminGuard
\* authorize(action, actingParticipantID, session): Allowed iff the acting
\* identity is the session's adminID; it reads the session to decide.
Authorize(actingParticipantID, session) ==
  session # Null /\ actingParticipantID = session.adminID

\* ------------------------------------------------------------ PollsGateway
Open(c) == conn[c].status = "open"
\* Sockets are anonymous: a new one takes the lowest unused slot.
IdleConn == CHOOSE c \in Conns : conn[c].status = "idle"
                                 /\ \A d \in Conns : d < c => conn[d].status # "idle"

\* The token of a connection attempt is verified before the gateway sees the
\* socket; a token that was not signed here is refused and no hook runs.
RejectConnection(token) ==
  /\ token \notin tokens
  /\ out' = Reject("connect", "InvalidCredential", [token |-> token])
  /\ UNCHANGED <<polls, nextPoll, nextUser, nextNom, tokens, conn, rooms, tasks, client>>

\* (a gateway that admits a socket whatever its token)
HandleConnection_Unverified(token) ==
  /\ \E c \in Conns : conn[c].status = "idle"
  /\ HasFreeSlot
  /\ LET c == IdleConn
         auth == Decode(token)
         roomName == auth.pollID
     IN  /\ conn' = [conn EXCEPT ![c] = [status |-> "open", auth |-> auth]]
         /\ rooms' = [rooms EXCEPT ![roomName] = @ \cup {c}]
         /\ tasks' = Spawn(Task("handleConnection", "addParticipant", c, auth,
                                auth.userID, auth.name, "", 0, "set"))
  /\ out' = NoOut
  /\ UNCHANGED <<polls, nextPoll, nextUser, nextNom, tokens, client>>

\* A socket whose token verified connects: handleConnection joins the room
\* named by the poll id, then awaits; addParticipant follows in later steps.
HandleConnection(token) ==
  /\ token \in tokens
  /\ \E c \in Conns : conn[c].status = "idle"
  /\ HasFreeSlot
  /\ LET c == IdleConn
         auth == Decode(token)
         roomName == auth.pollID
     IN  /\ conn' = [conn EXCEPT ![c] = [status |-> "open", auth |-> auth]]
         /\ rooms' = [rooms EXCEPT ![roomName] = @ \cup {c}]
         /\ tasks' = Spawn(Task("handleConnection", "addParticipant", c, auth,
                                auth.userID, auth.name, "", 0, "set"))
  /\ out' = NoOut
  /\ UNCHANGED <<polls, nextPoll, nextUser, nextNom, tokens, client>>

\* The socket closes: socket.io takes it out of its rooms, then calls
\* handleDisconnect, which starts removeParticipant for the socket's user.
HandleDisconnect(c) ==
  /\ Open(c)
  /\ HasFreeSlot
  /\ LET auth == conn[c].auth
     IN  /\ conn' = [conn EXCEPT ![c].status = "closed"]
         /\ rooms' = [rooms EXCEPT ![auth.pollID] = @ \ {c}]
         /\ tasks' = Spawn(Task("handleDisconnect", "removeParticipant", c, auth,
                                auth.userID, "", "", 0, "read"))
  /\ out' = NoOut
  /\ UNCHANGED <<polls, nextPoll, nextUser, nextNom, tokens, client>>

\* An admin-only message: the guard lets the handler start, or throws and the
\* filter answers the sender.
Guarded(c, task) ==
  /\ IF Authorize(conn[c].auth.userID, polls[conn[c].auth.pollID])
       THEN /\ tasks' = Spawn(task)
            /\ out' = NoOut
       ELSE /\ out' = WsCatchAllFilter("WsUnauthorizedException", task)
            /\ UNCHANGED tasks
  /\ UNCHANGED <<polls, nextPoll, nextUser, nextNom, tokens, conn, rooms, client>>

\* 'remove_participant' {userID}, under @UseGuards(GatewayAdminGuard)
RemoveParticipantMsg(c, userID) ==
  /\ Open(c)
  /\ HasFreeSlot
  /\ Guarded(c, Task("remove_participant", "removeParticipant", c, conn[c].auth,
                     userID, "", "", 0, "read"))

\* (nominate put under the admin guard as well)
NominateMsg_Guarded(c, text) ==
  /\ Open(c)
  /\ HasFreeSlot
  /\ nextNom < MaxNoms
  /\ nextNom' = nextNom
  /\ Guarded(c, Task("nominate", "addNomination", c, conn[c].auth,
                     conn[c].auth.userID, "", text, nextNom + 1, "set"))

\* 'nominate' {text}: no guard; the service draws the nomination id.
NominateMsg(c, text) ==
  /\ Open(c)
  /\ HasFreeSlot
  /\ nextNom < MaxNoms
  /\ nextNom' = nextNom + 1
  /\ tasks' = Spawn(Task("nominate", "addNomination", c, conn[c].auth,
                         conn[c].auth.userID, "", text, nextNom + 1, "set"))
  /\ out' = NoOut
  /\ UNCHANGED <<polls, nextPoll, nextUser, tokens, conn, rooms, client>>

\* (remove_nomination without its @UseGuards)
RemoveNominationMsg_NoGuard(c, nominationID) ==
  /\ Open(c)
  /\ HasFreeSlot
  /\ tasks' = Spawn(Task("remove_nomination", "removeNomination", c, conn[c].auth,
                         0, "", "", nominationID, "del"))
  /\ out' = NoOut
  /\ UNCHANGED <<polls, nextPoll, nextUser, nextNom, tokens, conn, rooms, client>>

\* 'remove_nomination' {nominationID}, under @UseGuards(GatewayAdminGuard)
RemoveNominationMsg(c, nominationID) ==
  /\ Open(c)
  /\ HasFreeSlot
  /\ Guarded(c, Task("remove_nomination", "removeNomination", c, conn[c].auth,
                     0, "", "", nominationID, "del"))

\* ------------------------------------------- PollsService, one await a step
\* addParticipant: JSON.SET .participants.<userID> <name>
AddParticipantSet(k) ==
  /\ k.op = "addParticipant"
  /\ k.pc = "set"
  /\ IF SetFails(k.pollID)
       THEN /\ Raise(k, "InternalServerErrorException")
            /\ UNCHANGED polls
       ELSE /\ polls' = [polls EXCEPT ![k.pollID] = RepoAddParticipant(@, k.userID, k.name)]
            /\ tasks' = Advance(k, "get", Undefined)
            /\ out' = NoOut
  /\ UNCHANGED <<nextPoll, nextUser, nextNom, tokens, conn, rooms, client>>

\* (a removeParticipant with the test of hasStarted turned around)
RemoveParticipantRead_Inverted(k) ==
  /\ k.op = "removeParticipant"
  /\ k.pc = "read"
  /\ LET poll == polls[k.pollID]
     IN  IF poll = Null
           THEN Raise(k, "TypeError")
           ELSE /\ tasks' = Advance(k, IF poll.hasStarted THEN "del" ELSE "fin", Undefined)
                /\ out' = NoOut
  /\ UNCHANGED <<polls, nextPoll, nextUser, nextNom, tokens, conn, rooms, client>>

\* removeParticipant: getPoll, then the test of poll.hasStarted; hasStarted of
\* null is a TypeError; a started poll ends the call without a value.
RemoveParticipantRead(k) ==
  /\ k.op = "removeParticipant"
  /\ k.pc = "read"
  /\ LET poll == polls[k.pollID]
     IN  IF poll = Null
           THEN Raise(k, "TypeError")
           ELSE /\ tasks' = Advance(k, IF poll.hasStarted THEN "fin" ELSE "del", Undefined)
                /\ out' = NoOut
  /\ UNCHANGED <<polls, nextPoll, nextUser, nextNom, tokens, conn, rooms, client>>

\* removeParticipant: JSON.DEL .participants.<userID>
RemoveParticipantDel(k) ==
  /\ k.op = "removeParticipant"
  /\ k.pc = "del"
  /\ polls' = [polls EXCEPT ![k.pollID] = RepoRemoveParticipant(@, k.userID)]
  /\ tasks' = Advance(k, "get", Undefined)
  /\ out' = NoOut
  /\ UNCHANGED <<nextPoll, nextUser, nextNom, tokens, conn, rooms, client>>

\* addNomination: JSON.SET .nominations.<nominationID> {userID, text}
AddNominationSet(k) ==
  /\ k.op = "addNomination"
  /\ k.pc = "set"
  /\ IF SetFails(k.pollID)
       THEN /\ Raise(k, "InternalServerErrorException")
            /\ UNCHANGED polls
       ELSE /\ polls' = [polls EXCEPT ![k.pollID] =
                           RepoAddNomination(@, k.nomID, Nomination(k.userID, k.text))]
            /\ tasks' = Advance(k, "get", Undefined)
            /\ out' = NoOut
  /\ UNCHANGED <<nextPoll, nextUser, nextNom, tokens, conn, rooms, client>>

\* removeNomination: JSON.DEL .nominations.<nominationID>
RemoveNominationDel(k) ==
  /\ k.op = "removeNomination"
  /\ k.pc = "del"
  /\ polls' = [polls EXCEPT ![k.pollID] = RepoRemoveNomination(@, k.nomID)]
  /\ tasks' = Advance(k, "get", Undefined)
  /\ out' = NoOut
  /\ UNCHANGED <<nextPoll, nextUser, nextNom, tokens, conn, rooms, client>>

\* getPoll after the write: JSON.GET of the whole document.
GetPoll(k) ==
  /\ k.pc = "get"
  /\ tasks' = Advance(k, "fin", polls[k.pollID])
  /\ out' = NoOut
  /\ UNCHANGED <<polls, nextPoll, nextUser, nextNom, tokens, conn, rooms, client>>

\* ------------------------------------------- the handlers' last statements
\* io.to(room).emit reaches the sockets that are in the room when it runs.
Done(k, caller) ==
  /\ k.caller = caller
  /\ k.pc = "fin"
  /\ tasks' = Retire(k)
  /\ UNCHANGED <<polls, nextPoll, nextUser, nextNom, tokens, conn, rooms, client>>

\* (client.to(roomName).emit: everyone in the room but the new socket)
HandleConnectionEmit_Others(k) ==
  /\ Done(k, "handleConnection")
  /\ out' = Emit("poll_updated", rooms[k.pollID] \ {k.who}, k.poll, k)

\* handleConnection: this.io.to(roomName).emit('poll_updated', updatedPoll)
HandleConnectionEmit(k) ==
  /\ Done(k, "handleConnection")
  /\ out' = Emit("poll_updated", rooms[k.pollID], k.poll, k)

\* (a broadcast that also addresses the socket that went away)
HandleDisconnectEmit_ToAll(k) ==
  /\ Done(k, "handleDisconnect")
  /\ out' = IF Truthy(k.poll)
              THEN Emit("poll_updated", rooms[k.pollID] \cup {k.who}, k.poll, k)
              ELSE NoOut

\* handleDisconnect: if (updatedPoll) this.io.to(pollID).emit('poll_updated', ...)
HandleDisconnectEmit(k) ==
  /\ Done(k, "handleDisconnect")
  /\ out' = IF Truthy(k.poll)
              THEN Emit("poll_updated", rooms[k.pollID], k.poll, k)
              ELSE NoOut

\* removeParticipant: this.io.to(client.pollID).emit('poll_updated', updatedPoll)
RemoveParticipantEmit(k) ==
  /\ Done(k, "remove_participant")
  /\ out' = Emit("poll_updated", rooms[k.pollID], k.poll, k)

\* (this.io.emit: every socket of the namespace, whatever its room)
NominateEmit_Namespace(k) ==
  /\ Done(k, "nominate")
  /\ out' = Emit("poll_updated", UNION {rooms[p] : p \in DOMAIN rooms}, k.poll, k)

\* nominate: this.io.to(client.pollID).emit('poll_updated', updatedPoll)
NominateEmit(k) ==
  /\ Done(k, "nominate")
  /\ out' = Emit("poll_updated", rooms[k.pollID], k.poll, k)

\* removeNomination: this.io.to(client.pollID).emit('pol_updated', updatedPoll)
RemoveNominationEmit(k) ==
  /\ Done(k, "remove_nomination")
  /\ out' = Emit("pol_updated", rooms[k.pollID], k.poll, k)

\* rejoinPoll: return joinedPoll
RejoinPollReturn(k) ==
  /\ Done(k, "rejoinPoll")
  /\ out' = Return("rejoinPoll", k.poll, k)

\* a service method called directly resolves to its caller
ServiceReturn(k) ==
  /\ Done(k, "service")
  /\ out' = Return(k.op, k.poll, k)

\* --------------------------------------------------------- the environment
\* The voting phase begins: hasStarted becomes true in the stored document.
StartPoll(p) ==
  /\ polls[p] # Null
  /\ ~polls[p].hasStarted
  /\ polls' = [polls EXCEPT ![p].hasStarted = TRUE]
  /\ out' = NoOut
  /\ UNCHANGED <<nextPoll, nextUser, nextNom, tokens, conn, rooms, tasks, client>>

\* The key's time-to-live (EXPIRE key ttl, set by createPoll) runs out.
Expire(p) ==
  /\ polls[p] # Null
  /\ polls' = [polls EXCEPT ![p] = Null]
  /\ out' = NoOut
  /\ UNCHANGED <<nextPoll, nextUser, nextNom, tokens, conn, rooms, tasks, client>>

\* ------------------------------------- the service's methods called directly
ServiceCall(task) ==
  /\ Issued(task.pollID)
  /\ HasFreeSlot
  /\ tasks' = Spawn(task)
  /\ out' = NoOut
  /\ UNCHANGED <<polls, nextPoll, nextUser, nextNom, tokens, conn, rooms, client>>

SvcRejoinPoll(pollID, userID, name) ==
  ServiceCall(Task("rejoinPoll", "addParticipant", 0, AuthPayload(pollID, userID, name),
                   userID, name, "", 0, "set"))

SvcRemoveParticipant(pollID, userID) ==
  ServiceCall(Task("service", "removeParticipant", 0, AuthPayload(pollID, 0, ""),
                   userID, "", "", 0, "read"))

\* addNomination draws the nomination id when it is called.
SvcAddNomination(pollID, userID, text) ==
  /\ Issued(pollID)
  /\ HasFreeSlot
  /\ nextNom < MaxSvcNoms
  /\ nextNom' = nextNom + 1
  /\ tasks' = Spawn(Task("service", "addNomination", 0, AuthPayload(pollID, 0, ""),
                         userID, "", text, nextNom + 1, "set"))
  /\ out' = NoOut
  /\ UNCHANGED <<polls, nextPoll, nextUser, tokens, conn, rooms, client>>

SvcRemoveNomination(pollID, nominationID) ==
  ServiceCall(Task("service", "removeNomination", 0, AuthPayload(pollID, 0, ""),
                   0, "", "", nominationID, "del"))

\* ------------------------------------------------------------- the clients
\* The client of a socket replaces its copy of the poll by the payload of
\* each poll_updated it receives; it listens to no other event for that.
Delivered ==
  ~(/\ out.type = "emit"
    /\ out.name = "poll_updated"
    /\ \E c \in out.to : client[c] # out.payload)

Receive ==
  /\ ~Delivered
  /\ client' = [c \in Conns |-> IF c \in out.to THEN out.payload ELSE client[c]]
  /\ UNCHANGED <<polls, nextPoll, nextUser, nextNom, tokens, conn, rooms, tasks, out>>

\* ---------------------------------------------------------- specifications
ParticipantStep ==
  \E k \in InFlight :
    \/ AddParticipantSet(k)
    \/ RemoveParticipantRead(k)
    \/ RemoveParticipantDel(k)
    \/ GetPoll(k)

NominationStep ==
  \E k \in InFlight :
    \/ AddNominationSet(k)
    \/ RemoveNominationDel(k)

Environment == \E p \in PollIDs : StartPoll(p) \/ Expire(p)

\* The real-time server: polls are created and joined over HTTP, the sockets
\* of the gateway connect, send messages and disconnect.
Next ==
  \/ \E dto \in CreatePollDto : CreatePoll(dto.topic, dto.votesPerVoter, dto.name)
  \/ \E p \in PollIDs, name \in JoinNames : JoinPoll(p, name)
  \/ \E token \in tokens : HandleConnection(token)
  \/ \E c \in Conns : HandleDisconnect(c)
  \/ \E c \in Conns, u \in UserIDs : RemoveParticipantMsg(c, u)
  \/ \E c \in Conns, text \in Texts : NominateMsg(c, text)
  \/ \E c \in Conns, n \in NomIDs : RemoveNominationMsg(c, n)
  \/ \E k \in InFlight :
       \/ HandleConnectionEmit(k)
       \/ HandleDisconnectEmit(k)
       \/ RemoveParticipantEmit(k)
       \/ NominateEmit(k)
       \/ RemoveNominationEmit(k)
  \/ ParticipantStep
  \/ NominationStep
  \/ Environment

Spec == Init /\ [][Next]_vars

\* The HTTP side and the service's participant methods driven directly, as a
\* unit test drives them: any user id, any name, calls overlapping as their
\* awaits allow.
NextSvc ==
  \/ \E f \in CreatePollFields : CreatePoll(f.topic, f.votesPerVoter, f.name)
  \/ \E p \in PollIDs, name \in JoinNames : JoinPoll(p, name)
  \/ \E token \in tokens : RejoinPoll(token)
  \/ \E p \in PollIDs, u \in UserIDs, name \in Names : SvcRejoinPoll(p, u, name)
  \/ \E p \in PollIDs, u \in UserIDs : SvcRemoveParticipant(p, u)
  \/ \E k \in InFlight : RejoinPollReturn(k) \/ ServiceReturn(k)
  \/ ParticipantStep
  \/ Environment

SpecSvc == Init /\ [][NextSvc]_vars

\* The service's nomination methods driven directly.
ReadStep == \E k \in InFlight : GetPoll(k)

NextNominations ==
  \/ \E f \in CreatePollDto : CreatePoll(f.topic, f.votesPerVoter, f.name)
  \/ \E p \in PollIDs, u \in UserIDs, text \in Texts : SvcAddNomination(p, u, text)
  \/ \E p \in PollIDs, n \in SvcNomIDs : SvcRemoveNomination(p, n)
  \/ \E k \in InFlight : ServiceReturn(k)
  \/ NominationStep
  \/ ReadStep
  \/ \E p \in PollIDs : Expire(p)

SpecNominations == Init /\ [][NextNominations]_vars

\* The real-time server with its clients, who may also present a token that
\* was never issued.  A message sent is received before
\* anything else happens; a handler whose read has returned runs on to its
\* emit before the server takes up another event, as the continuation of an
\* await runs before the next I/O event; the polls neither start nor expire.
Prompt == \A k \in InFlight : k.pc # "fin"
Settled == Delivered /\ Prompt

NextClients ==
  \/ Receive
  \/ Delivered /\ \E k \in InFlight : \/ HandleConnectionEmit(k)
                                      \/ HandleDisconnectEmit(k)
                                      \/ RemoveParticipantEmit(k)
                                      \/ NominateEmit(k)
                                      \/ RemoveNominationEmit(k)
  \/ Settled /\ \E f \in CreatePollDto : CreatePoll(f.topic, f.votesPerVoter, f.name)
  \/ Settled /\ \E p \in PollIDs, name \in JoinNames : JoinPoll(p, name)
  \/ Settled /\ \E token \in tokens \cup ForgedTokens : HandleConnection(token)
  \/ Settled /\ \E token \in ForgedTokens : RejectConnection(token)
  \/ Settled /\ \E c \in Conns : HandleDisconnect(c)
  \/ Settled /\ \E c \in Conns, u \in UserIDs : RemoveParticipantMsg(c, u)
  \/ Settled /\ \E c \in Conns, text \in Texts : NominateMsg(c, text)
  \/ Settled /\ \E c \in Conns, n \in NomIDs : RemoveNominationMsg(c, n)
  \/ Settled /\ ParticipantStep
  \/ Settled /\ NominationStep

SpecClients == Init /\ [][NextClients]_vars

\* Sockets that come and go one at a time, each with a user id of its own:
\* a socket connects or disconnects only when no handler is in flight, and a
\* token is used for one socket only.  No message is sent, no poll starts or
\* expires.
Idle == tasks = EmptyBag
Unused(token) ==
  \A c \in Conns : conn[c].status # "idle" => conn[c].auth.userID # Decode(token).userID

NextSequential ==
  \/ \E f \in CreatePollFields : CreatePoll(f.topic, f.votesPerVoter, f.name)
  \/ \E p \in PollIDs, name \in JoinNames : JoinPoll(p, name)
  \/ Idle /\ \E token \in tokens : Unused(token) /\ HandleConnection(token)
  \/ Idle /\ \E c \in Conns : HandleDisconnect(c)
  \/ \E k \in InFlight : HandleConnectionEmit(k) \/ HandleDisconnectEmit(k)
  \/ ParticipantStep

SpecSequential == Init /\ [][NextSequential]_vars

\* ------------------------------------------------------------------ claims
\* A handler starts in this step / takes a step or ends in this step.
Started(k) == CopiesIn(k, tasks') > CopiesIn(k, tasks)
Moved(k) == CopiesIn(k, tasks') < CopiesIn(k, tasks)
\* The socket's identity is the adminID of the stored session.
IsAdmin(c) ==
  /\ polls[conn[c].auth.pollID] # Null
  /\ conn[c].auth.userID = polls[conn[c].auth.pollID].adminID
Denial(c) ==
  /\ out'.type = "emit"
  /\ out'.name = "exception"
  /\ out'.to = {c}

\* C1: the session createPoll returns has hasStarted = false, no participants,
\* no nominations, the topic and votesPerVoter of the request, and the adminID
\* that the returned access token carries as its subject.
C1_CreatePollReturnsFreshSession ==
  (out.type = "return" /\ out.name = "createPoll") =>
    LET poll == out.payload.poll
        credential == Decode(out.payload.accessToken)
    IN  /\ poll.hasStarted = FALSE
        /\ DOMAIN poll.participants = {}
        /\ DOMAIN poll.nominations = {}
        /\ poll.topic = out.from.topic
        /\ poll.votesPerVoter = out.from.votesPerVoter
        /\ poll.adminID = credential.userID
        /\ poll.id = credential.pollID

C1_Witness ==
  /\ out.type = "return"
  /\ out.name = "createPoll"
  /\ out.from.topic = "dinner"
  /\ out.payload.poll.adminID = 1

\* C2: a remove_participant or remove_nomination message starts its service
\* operation exactly when the sender's identity is the session's adminID; a
\* nominate message always starts addNomination.
C2_AdminOnlyIffAdmin ==
  [][\A c \in Conns :
       /\ \A u \in UserIDs :
            RemoveParticipantMsg(c, u) =>
              ((\E k \in BagToSet(tasks') :
                   /\ Started(k)
                   /\ k.op = "removeParticipant" /\ k.who = c /\ k.userID = u)
                 <=> IsAdmin(c))
       /\ \A n \in NomIDs :
            RemoveNominationMsg(c, n) =>
              ((\E k \in BagToSet(tasks') :
                   /\ Started(k)
                   /\ k.op = "removeNomination" /\ k.who = c /\ k.nomID = n)
                 <=> IsAdmin(c))
       /\ \A text \in Texts :
            NominateMsg(c, text) =>
              \E k \in BagToSet(tasks') :
                 /\ Started(k)
                 /\ k.op = "addNomination" /\ k.who = c
                 /\ k.userID = conn[c].auth.userID /\ k.text = text
    ]_vars

\* the admin's removal is in flight, a non-admin's was just refused, and a
\* non-admin's nomination is in flight
C2_Witness ==
  /\ \E k \in InFlight :
       /\ k.caller = "remove_participant"
       /\ polls[k.pollID] # Null
       /\ k.actor = polls[k.pollID].adminID
  /\ out.name = "exception"
  /\ out.from.caller = "remove_nomination"
  /\ polls[out.from.pollID] # Null
  /\ out.from.actor # polls[out.from.pollID].adminID

\* C3: when a socket that is not the admin sends remove_participant or
\* remove_nomination, the store is the same before and after the message is
\* handled, and no handler is left that could change it later.
C3_DeniedChangesNothing ==
  [][\A c \in Conns :
       (/\ \/ \E u \in UserIDs : RemoveParticipantMsg(c, u)
           \/ \E n \in NomIDs : RemoveNominationMsg(c, n)
        /\ ~IsAdmin(c))
       => (polls' = polls /\ tasks' = tasks /\ rooms' = rooms)
    ]_vars

\* a non-admin was refused the removal of a participant who is in the document
C3_Witness ==
  /\ out.name = "exception"
  /\ out.payload = Exception("Unauthorized")
  /\ out.from.caller = "remove_participant"
  /\ polls[out.from.pollID] # Null
  /\ out.from.actor # polls[out.from.pollID].adminID
  /\ out.from.userID \in DOMAIN polls[out.from.pollID].participants

\* C4: a refused action produces one 'exception' message, addressed to the
\* sender alone; nothing else is sent for it, then or later.
C4_DenialIsUnicast ==
  /\ [](out.name = "exception" =>
          (out.type = "emit" /\ out.to = {out.from.who}))
  /\ [][\A c \in Conns :
          (/\ \/ \E u \in UserIDs : RemoveParticipantMsg(c, u)
              \/ \E n \in NomIDs : RemoveNominationMsg(c, n)
           /\ ~IsAdmin(c))
          => (Denial(c) /\ tasks' = tasks)
       ]_vars

\* a removal is refused while another socket is in the room
C4_Witness ==
  /\ out.name = "exception"
  /\ out.payload = Exception("Unauthorized")
  /\ out.to = {out.from.who}
  /\ \E d \in rooms[out.from.pollID] : d # out.from.who

\* The handler k goes on as the same record at pc, holding poll.
Became(k, pc, poll) == Started([k EXCEPT !.pc = pc, !.poll = poll])
HasEntry(doc, userID, name) ==
  /\ Truthy(doc)
  /\ userID \in DOMAIN doc.participants
  /\ doc.participants[userID] = name
Without(m, x) == [y \in (DOMAIN m) \ {x} |-> m[y]]
With(m, x, v) == [y \in (DOMAIN m) \cup {x} |-> IF y = x THEN v ELSE m[y]]

\* C5: what nominate, remove_nomination or remove_participant sends when its
\* service call gave a session is a poll_updated message with that session,
\* addressed to the whole room, the sender's socket included while it is open.
C5_AllowedBroadcastsPollUpdated ==
  (/\ out.type = "emit"
   /\ out.name # "exception"
   /\ out.from.caller \in {"nominate", "remove_nomination", "remove_participant"}
   /\ Truthy(out.payload))
  => /\ out.name = "poll_updated"
     /\ out.to = rooms[out.from.pollID]
     /\ Open(out.from.who) => out.from.who \in out.to

\* C6: when removeParticipant ended without a value because the poll has
\* started, neither handleDisconnect nor the remove_participant handler sends
\* anything to the room.
C6_NoOpBroadcastsNothing ==
  (/\ out.type = "emit"
   /\ out.name # "exception"
   /\ out.from.op = "removeParticipant")
  => out.payload # Undefined

\* C7 as stated: the session handleConnection broadcasts goes out as a
\* poll_updated that the new socket is addressed by while it is open, and it
\* holds the socket's participant entry.
C7_AdmissionBroadcastHasEntry ==
  (/\ out.type = "emit"
   /\ out.from.caller = "handleConnection"
   /\ Truthy(out.payload))
  => /\ out.name = "poll_updated"
     /\ Open(out.from.who) => out.from.who \in out.to
     /\ HasEntry(out.payload, out.from.userID, out.from.name)

\* C7, amended: the socket is in the room of its poll id from the moment
\* handleConnection starts; addParticipant then writes the socket's (poll id,
\* user id, name), reads the document, and only then the handler broadcasts
\* what was read to the room, the new socket included while it is open.  The
\* entry written stays in the stored document until the read unless a
\* removeParticipant of that user id deletes it or the document expires.
C7_AdmissionOrder ==
  /\ [](\A k \in InFlight :
          (k.caller = "handleConnection" /\ Open(k.who)) => k.who \in rooms[k.pollID])
  /\ [][/\ \A token \in tokens :
             HandleConnection(token) =>
               LET c == IdleConn
                   auth == Decode(token)
               IN  /\ c \in rooms'[auth.pollID]
                   /\ Started(Task("handleConnection", "addParticipant", c, auth,
                                   auth.userID, auth.name, "", 0, "set"))
                   /\ polls' = polls
                   /\ out' = NoOut
        /\ \A k \in InFlight :
             (k.caller = "handleConnection" /\ Moved(k)) =>
               /\ k.pc = "set" =>
                    /\ out' = NoOut
                    /\ polls[k.pollID] # Null =>
                         /\ HasEntry(polls'[k.pollID], k.userID, k.name)
                         /\ Became(k, "get", Undefined)
               /\ k.pc = "get" =>
                    /\ out' = NoOut
                    /\ polls' = polls
                    /\ Became(k, "fin", polls[k.pollID])
               /\ k.pc = "fin" =>
                    /\ out' = Emit("poll_updated", rooms[k.pollID], k.poll, k)
                    /\ Open(k.who) => k.who \in out'.to
                    /\ polls' = polls
        /\ \A k \in InFlight :
             (/\ k.caller = "handleConnection"
              /\ k.pc = "get"
              /\ HasEntry(polls[k.pollID], k.userID, k.name)
              /\ ~HasEntry(polls'[k.pollID], k.userID, k.name))
             => \/ polls'[k.pollID] = Null
                \/ \E j \in InFlight :
                     /\ Moved(j)
                     /\ j.op = "removeParticipant" /\ j.pc = "del"
                     /\ j.userID = k.userID /\ j.pollID = k.pollID
       ]_vars

\* the new socket and another one are sent the session with the new entry
C7_Witness ==
  /\ out.type = "emit"
  /\ out.from.caller = "handleConnection"
  /\ out.from.who \in out.to
  /\ out.to # {out.from.who}
  /\ HasEntry(out.payload, out.from.userID, out.from.name)

\* C8: a socket that disconnects is closed and out of its room, and
\* removeParticipant starts for its poll id and user id; when that call gives
\* a session, handleDisconnect sends it as poll_updated to the sockets then in
\* the room, never to the socket that went away, which stays closed.
C8_DisconnectRemovesAndBroadcasts ==
  /\ [](\A c \in Conns :
          conn[c].status = "closed" => \A p \in PollIDs : c \notin rooms[p])
  /\ [][/\ \A c \in Conns :
             HandleDisconnect(c) =>
               /\ conn'[c].status = "closed"
               /\ Started(Task("handleDisconnect", "removeParticipant", c, conn[c].auth,
                               conn[c].auth.userID, "", "", 0, "read"))
        /\ \A c \in Conns : conn[c].status = "closed" => conn'[c].status = "closed"
        /\ \A k \in InFlight :
             (/\ k.caller = "handleDisconnect"
              /\ k.pc = "fin"
              /\ Moved(k)
              /\ Truthy(k.poll))
             => /\ out' = Emit("poll_updated", rooms[k.pollID], k.poll, k)
                /\ k.who \notin out'.to
                /\ k.userID = conn[k.who].auth.userID
       ]_vars

\* the session without the leaver's entry goes to a socket that stayed
C8_Witness ==
  /\ out.type = "emit"
  /\ out.from.caller = "handleDisconnect"
  /\ out.to # {}
  /\ out.from.who \notin out.to
  /\ Truthy(out.payload)
  /\ out.from.userID \notin DOMAIN out.payload.participants
  /\ DOMAIN out.payload.participants # {}

\* C9: removeParticipant on a poll it reads as started changes nothing and
\* ends without a value; otherwise its delete takes exactly the entry of the
\* user id out of participants and changes nothing else in the store; deleting
\* an entry that is not there changes nothing and raises no error.
C9_RemoveParticipantFrame ==
  [][\A k \in InFlight :
       (k.op = "removeParticipant" /\ Moved(k)) =>
         LET doc == polls[k.pollID]
         IN  /\ k.pc = "read" =>
                  /\ polls' = polls
                  /\ doc # Null =>
                       /\ out' = NoOut
                       /\ IF doc.hasStarted
                            THEN Became(k, "fin", Undefined)
                            ELSE Became(k, "del", Undefined)
             /\ k.pc = "del" =>
                  /\ out' = NoOut
                  /\ Became(k, "get", Undefined)
                  /\ \A p \in PollIDs : p # k.pollID => polls'[p] = polls[p]
                  /\ doc # Null =>
                       /\ polls'[k.pollID] =
                            [doc EXCEPT !.participants = Without(@, k.userID)]
                       /\ k.userID \notin DOMAIN doc.participants => polls' = polls
             /\ k.pc \in {"get", "fin"} => polls' = polls
             /\ (k.pc = "fin" /\ k.poll = Undefined /\ k.caller = "service") =>
                  out' = Return("removeParticipant", Undefined, k)
    ]_vars

\* a removal returned a session that still holds another participant
C9_Witness ==
  /\ out.type = "return"
  /\ out.name = "removeParticipant"
  /\ Truthy(out.payload)
  /\ out.from.userID \notin DOMAIN out.payload.participants
  /\ DOMAIN out.payload.participants # {}
  /\ \E k \in InFlight :
       k.op = "removeParticipant" /\ k.pc = "fin" /\ k.poll = Undefined

\* C10: the write of rejoinPoll / addParticipant on a stored poll sets the
\* entry of the user id to the name of this call and changes nothing else;
\* it raises no error when the user id is present already, and with the same
\* name again it leaves the store as it is.
C10_AddParticipantUpsert ==
  [][\A k \in InFlight :
       (/\ k.op = "addParticipant"
        /\ k.pc = "set"
        /\ Moved(k)
        /\ polls[k.pollID] # Null)
       => LET doc == polls[k.pollID]
          IN  /\ polls'[k.pollID] =
                   [doc EXCEPT !.participants = With(@, k.userID, k.name)]
              /\ \A p \in PollIDs : p # k.pollID => polls'[p] = polls[p]
              /\ HasEntry(doc, k.userID, k.name) => polls' = polls
              /\ out' = NoOut
              /\ Became(k, "get", Undefined)
    ]_vars

\* the store holds the name of the later of two calls for one user id, while
\* the earlier call returned the name it wrote; another entry is untouched
C10_Witness ==
  /\ out.type = "return"
  /\ out.name = "rejoinPoll"
  /\ HasEntry(out.payload, out.from.userID, "Bob")
  /\ HasEntry(polls[out.from.pollID], out.from.userID, "Alice")
  /\ \E u \in DOMAIN polls[out.from.pollID].participants : u # out.from.userID
\* C11: the write of addNomination puts one new entry under a nomination id
\* that was not in use, and removeNomination with that id, applied to what the
\* write left, gives back the document as it was before; the delete of
\* removeNomination takes exactly its id out of nominations, and with an id
\* that is not there it changes nothing and raises no error.
C11_NominationRoundTrip ==
  [][\A k \in InFlight :
       LET doc == polls[k.pollID]
       IN  /\ (k.op = "addNomination" /\ k.pc = "set" /\ Moved(k) /\ doc # Null) =>
                /\ k.nomID \notin DOMAIN doc.nominations
                /\ polls'[k.pollID] =
                     [doc EXCEPT !.nominations =
                                   With(@, k.nomID, Nomination(k.userID, k.text))]
                /\ RepoRemoveNomination(polls'[k.pollID], k.nomID) = doc
           /\ (k.op = "removeNomination" /\ k.pc = "del" /\ Moved(k)) =>
                /\ out' = NoOut
                /\ Became(k, "get", Undefined)
                /\ doc # Null =>
                     /\ polls'[k.pollID] =
                          [doc EXCEPT !.nominations = Without(@, k.nomID)]
                     /\ k.nomID \notin DOMAIN doc.nominations => polls' = polls
    ]_vars

\* nomination 2 was added next to nomination 1 and read back, and its removal
\* returned the poll with nomination 1 alone
C11_Witness ==
  /\ out.type = "return"
  /\ out.name = "removeNomination"
  /\ out.from.nomID = 2
  /\ Truthy(out.payload)
  /\ DOMAIN out.payload.nominations = {1}
  /\ \E k \in InFlight :
       /\ k.op = "addNomination" /\ k.nomID = 2 /\ k.pc = "fin"
       /\ Truthy(k.poll)
       /\ DOMAIN k.poll.nominations = {1, 2}
\* C12: joinPoll on a stored poll returns the poll as stored, unchanged, with
\* a token for a user id drawn for this request, which is not a participant
\* yet; on a poll that is not stored it fails as SessionNotFound and no token
\* exists for the user id it drew.
C12_JoinReturnsSnapshotOrNotFound ==
  out.name = "joinPoll" =>
    IF polls[out.from.pollID] # Null
      THEN /\ out.type = "return"
           /\ out.payload.poll = polls[out.from.pollID]
           /\ out.payload.accessToken \in tokens
           /\ LET credential == Decode(out.payload.accessToken)
              IN  /\ credential.userID = nextUser
                  /\ credential.pollID = out.from.pollID
                  /\ credential.name = out.from.name
                  /\ credential.userID \notin DOMAIN polls[out.from.pollID].participants
      ELSE /\ out = Reject("joinPoll", "SessionNotFound", out.from)
           /\ \A t \in tokens : Decode(t).userID <= nextUser
\* C13: a stored poll keeps its id, topic, votesPerVoter and adminID in every
\* step; its id is its key, and a key whose poll is gone is not written again.
C13_CreationFieldsStable ==
  /\ [](\A p \in PollIDs : polls[p] # Null => polls[p].id = p)
  /\ [][\A p \in PollIDs :
          /\ (polls[p] # Null /\ polls'[p] # Null) =>
               /\ polls'[p].id = polls[p].id
               /\ polls'[p].topic = polls[p].topic
               /\ polls'[p].votesPerVoter = polls[p].votesPerVoter
               /\ polls'[p].adminID = polls[p].adminID
          /\ (polls[p] = Null /\ polls'[p] # Null) =>
               /\ ~Issued(p)
               /\ \E f \in CreatePollDto :
                    polls'[p] = InitialPoll(p, f.topic, f.votesPerVoter, nextUser + 1)
       ]_vars

\* a second user joined, sockets were admitted, one left, a participant and a
\* nomination are stored
C13_Witness ==
  /\ nextUser = 2
  /\ \E c \in Conns : conn[c].status = "closed"
  /\ \E p \in PollIDs :
       /\ polls[p] # Null
       /\ DOMAIN polls[p].participants # {}
       /\ \E n \in DOMAIN polls[p].nominations :
            polls[p].nominations[n].userID # polls[p].adminID
\* C14: when addNomination writes a nomination for a socket whose admission
\* has finished, the nomination's userID is a key of participants in the
\* stored poll at that moment.
C14_NominatorIsParticipant ==
  [][\A k \in InFlight :
       (/\ k.op = "addNomination"
        /\ k.pc = "set"
        /\ Moved(k)
        /\ polls[k.pollID] # Null
        /\ \A j \in InFlight : j.caller = "handleConnection" => j.who # k.who)
       => k.userID \in DOMAIN polls[k.pollID].participants
    ]_vars
\* C15: between two stored states of a poll, an entry of participants or of
\* nominations changes only in the step that sets or deletes that very path;
\* the entry a set wrote is there after the set.
C15_NoFieldWriteLost ==
  [][\A p \in PollIDs :
       (polls[p] # Null /\ polls'[p] # Null) =>
         /\ \A u \in DOMAIN polls[p].participants \cup DOMAIN polls'[p].participants :
              (\/ u \notin DOMAIN polls[p].participants
               \/ u \notin DOMAIN polls'[p].participants
               \/ polls'[p].participants[u] # polls[p].participants[u])
              => \E k \in InFlight :
                   /\ Moved(k)
                   /\ k.pollID = p /\ k.userID = u
                   /\ \/ k.op = "addParticipant" /\ k.pc = "set"
                      \/ k.op = "removeParticipant" /\ k.pc = "del"
         /\ \A n \in DOMAIN polls[p].nominations \cup DOMAIN polls'[p].nominations :
              (\/ n \notin DOMAIN polls[p].nominations
               \/ n \notin DOMAIN polls'[p].nominations
               \/ polls'[p].nominations[n] # polls[p].nominations[n])
              => \E k \in InFlight :
                   /\ Moved(k)
                   /\ k.pollID = p /\ k.nomID = n
                   /\ \/ k.op = "addNomination" /\ k.pc = "set"
                      \/ k.op = "removeNomination" /\ k.pc = "del"
         /\ \A k \in InFlight :
              (Moved(k) /\ k.pollID = p /\ k.pc = "set") =>
                IF k.op = "addParticipant"
                  THEN HasEntry(polls'[p], k.userID, k.name)
                  ELSE /\ k.nomID \in DOMAIN polls'[p].nominations
                       /\ polls'[p].nominations[k.nomID] = Nomination(k.userID, k.text)
    ]_vars

\* two writers overlapped: a participant was written while a nomination's
\* handler was between its write and its read, and both entries are stored
C15_Witness ==
  \E k \in InFlight, j \in InFlight :
    /\ k.op = "addNomination" /\ k.pc = "get"
    /\ j.op = "addParticipant" /\ j.pc = "get"
    /\ j.who # k.who
    /\ polls[k.pollID] # Null
    /\ k.nomID \in DOMAIN polls[k.pollID].nominations
    /\ HasEntry(polls[k.pollID], j.userID, j.name)
    /\ HasEntry(polls[k.pollID], k.userID, "Alice")
    /\ j.userID # k.userID
\* C16: the handlers of one socket's messages run one after the other: while
\* the handler of a message has not sent its broadcast, no handler of another
\* message of that socket is under way.
C16_OneMessageAtATimePerSocket ==
  \A j \in InFlight, k \in InFlight :
    (/\ j.caller \in {"nominate", "remove_nomination", "remove_participant"}
     /\ k.caller \in {"nominate", "remove_nomination", "remove_participant"}
     /\ j.who = k.who)
    => (j = k /\ CopiesIn(k, tasks) = 1)
\* C17: when no handler is in flight and every message sent has been
\* received, the copy of each client whose socket is open is the stored poll.
C17_ClientsConverge ==
  (tasks = EmptyBag /\ Delivered) =>
    \A c \in Conns :
      (Open(c) /\ polls[conn[c].auth.pollID] # Null) =>
        client[c] = polls[conn[c].auth.pollID]
\* C18: every store command a call issues for a poll that has expired makes
\* the call fail: the call ends there, returns no value, and the key stays
\* without a document.
C18_ExpiredPollFailsEveryCall ==
  [][\A k \in InFlight :
       (/\ Moved(k)
        /\ k.pc \in {"set", "read", "del", "get"}
        /\ polls[k.pollID] = Null)
       => /\ BagCardinality(tasks') < BagCardinality(tasks)
          /\ out'.type = "error" \/ out'.name = "exception"
          /\ polls' = polls
    ]_vars
\* C19: a connection attempt with a token that was not issued changes no
\* socket, room, handler or poll and sends nothing; every socket that was
\* ever open, is in a room or has a handler carries the identity of an issued
\* token.
C19_InvalidCredentialRejected ==
  /\ [](\A c \in Conns :
          conn[c].status # "idle" =>
            Sign(conn[c].auth.pollID, conn[c].auth.name, conn[c].auth.userID) \in tokens)
  /\ [](\A p \in PollIDs : \A c \in rooms[p] : Open(c))
  /\ [](\A k \in InFlight : k.who # 0 => conn[k.who].status # "idle")
  /\ [][\A token \in ForgedTokens :
          RejectConnection(token) =>
            /\ conn' = conn
            /\ rooms' = rooms
            /\ tasks' = tasks
            /\ polls' = polls
            /\ out'.type = "error"
       ]_vars

\* a forged token was refused while the poll it names is stored and has a
\* socket in its room
C19_Witness ==
  /\ out.type = "error"
  /\ out.name = "connect"
  /\ polls[out.from.token.pollID] # Null
  /\ rooms[out.from.token.pollID] # {}
  /\ \E c \in Conns : conn[c].status = "idle"
\* C20: with sockets admitted and disconnected one at a time, each under a
\* user id of its own, and nothing else acting on the poll: whenever no
\* handler is in flight, the participants of a stored poll are exactly the
\* users of the sockets now open on it, each under the name of its token.
C20_ParticipantsAreOpenSockets ==
  Idle =>
    \A p \in PollIDs :
      polls[p] # Null =>
        LET admitted == {c \in Conns : Open(c) /\ conn[c].auth.pollID = p}
        IN  /\ DOMAIN polls[p].participants = {conn[c].auth.userID : c \in admitted}
            /\ \A c \in admitted :
                 polls[p].participants[conn[c].auth.userID] = conn[c].auth.name
            /\ ~polls[p].hasStarted

\* two sockets were admitted and one of them has left: one entry, the other's
C20_Witness ==
  /\ Idle
  /\ \E c \in Conns, d \in Conns :
       /\ Open(c)
       /\ conn[d].status = "closed"
       /\ conn[d].auth.userID = polls[conn[c].auth.pollID].adminID
       /\ DOMAIN polls[conn[c].auth.pollID].participants = {conn[c].auth.userID}
  /\ out.type = "emit"
  /\ out.from.caller = "handleDisconnect"
\* C21: deleting an entry of participants leaves adminID as it is; while the
\* admin's user id is not a key of participants, a remove_participant or
\* remove_nomination message still starts its service call when it comes from
\* a socket of the admin, and is still refused for every other socket.
AdminLeft(c) ==
  /\ polls[conn[c].auth.pollID] # Null
  /\ polls[conn[c].auth.pollID].adminID
       \notin DOMAIN polls[conn[c].auth.pollID].participants

C21_AdminKeepsPrivileges ==
  [][/\ \A k \in InFlight :
          (/\ k.op = "removeParticipant" /\ k.pc = "del" /\ Moved(k)
           /\ polls[k.pollID] # Null)
          => /\ polls'[k.pollID] # Null
             /\ polls'[k.pollID].adminID = polls[k.pollID].adminID
             /\ polls[k.pollID].adminID \in 1..nextUser
     /\ \A c \in Conns :
          (/\ \/ \E u \in UserIDs : RemoveParticipantMsg(c, u)
              \/ \E n \in NomIDs : RemoveNominationMsg(c, n)
           /\ AdminLeft(c))
          => IF conn[c].auth.userID = polls[conn[c].auth.pollID].adminID
               THEN /\ BagCardinality(tasks') = BagCardinality(tasks) + 1
                    /\ out' = NoOut
               ELSE /\ Denial(c)
                    /\ tasks' = tasks
    ]_vars

\* the admin's entry was deleted after its admission; the admin's removal of
\* a nomination is under way and another user's message was just refused
C21_Witness ==
  /\ \E c \in Conns :
       /\ Open(c)
       /\ AdminLeft(c)
       /\ conn[c].auth.userID = polls[conn[c].auth.pollID].adminID
       /\ \E k \in InFlight :
            k.caller = "remove_nomination" /\ k.who = c /\ k.pc = "del"
       /\ \A k \in InFlight : k.who = c => k.caller # "handleConnection"
  /\ out.name = "exception"
  /\ out.payload = Exception("Unauthorized")
  /\ out.from.actor # polls[out.from.pollID].adminID
\* C22: the payload of every poll_updated message is a whole session: it is
\* the document the handler's getPoll read, which is the stored document at the
\* instant of that read, after the handler's write and before the emit; it is
\* never null or undefined.
C22_BroadcastIsSnapshot ==
  [][/\ (out'.type = "emit" /\ out'.name = "poll_updated")
          => /\ Truthy(out'.payload)
             /\ out'.from \in InFlight
             /\ out'.from.pc = "fin"
             /\ out'.payload = out'.from.poll
     /\ \A k \in InFlight :
          (k.pc = "get" /\ Moved(k))
          => /\ Became(k, "fin", polls[k.pollID])
             /\ polls' = polls
    ]_vars
\* C23: when the store call of an operation fails, the operation ends there:
\* the document is not changed, nothing is broadcast, and the failure reaches
\* the caller: the socket that triggered a gateway operation (admission and
\* disconnect included) gets an exception message addressed to it alone, the
\* caller of a service method gets the rejection.
C23_FailureIsSurfaced ==
  [][\A k \in InFlight :
       (k.pc \in {"set", "read", "del"} /\ tasks' = Retire(k))
       => /\ polls' = polls
          /\ IF k.caller \in {"handleConnection", "handleDisconnect",
                              "remove_participant", "nominate",
                              "remove_nomination"}
               THEN /\ out'.type = "emit"
                    /\ out'.name = "exception"
                    /\ out'.to = {k.who}
               ELSE out'.type = "error"
    ]_vars
\* C24: while hasStarted is true in the stored session, no step of a
\* disconnect's removeParticipant takes an entry out of participants, whenever
\* that removeParticipant read the session.
C24_StartedPollKeepsParticipants ==
  [][\A k \in InFlight :
       (/\ k.caller = "handleDisconnect"
        /\ Moved(k)
        /\ polls[k.pollID] # Null
        /\ polls[k.pollID].hasStarted)
       => /\ polls'[k.pollID] # Null
          /\ polls'[k.pollID].participants = polls[k.pollID].participants
    ]_vars
\* C25: once the disconnect of a socket has been handled, no message handler
\* running for that socket writes the store or sends to the room, and a socket starts
\* handleConnection only when it opens and handleDisconnect only when it closes.
Handled(c) ==
  /\ conn[c].status = "closed"
  /\ \A k \in InFlight : ~(k.caller = "handleDisconnect" /\ k.who = c)

C25_DisconnectedIsTerminal ==
  [][/\ \A k \in InFlight :
          (/\ k.caller \in {"remove_participant", "nominate", "remove_nomination"}
           /\ Handled(k.who)
           /\ Moved(k))
          => /\ polls' = polls
             /\ ~(out'.type = "emit" /\ out'.name # "exception")
     /\ \A k \in BagToSet(tasks') :
          (Started(k) /\ k.caller = "handleConnection" /\ k.pc = "set")
          => ~Open(k.who) /\ conn[k.who].status # "closed"
     /\ \A k \in BagToSet(tasks') :
          (Started(k) /\ k.caller = "handleDisconnect" /\ k.pc = "read")
          => Open(k.who) /\ conn'[k.who].status = "closed"
    ]_vars
\* Sockets come and go, nobody sends a message and the poll is never started:
\* the only writers of participants are handleConnection and handleDisconnect.
\* A token may be presented by several sockets, at the same time or in turn.
NextConnections ==
  \/ \E dto \in CreatePollDto : CreatePoll(dto.topic, dto.votesPerVoter, dto.name)
  \/ \E p \in PollIDs, name \in JoinNames : JoinPoll(p, name)
  \/ \E token \in tokens : HandleConnection(token)
  \/ \E c \in Conns : HandleDisconnect(c)
  \/ \E k \in InFlight : HandleConnectionEmit(k) \/ HandleDisconnectEmit(k)
  \/ ParticipantStep

SpecConnections == Init /\ [][NextConnections]_vars

\* C26: with the poll not started and no remove_participant ever sent, whenever
\* no handler is running, the user id of every open socket is a key of
\* participants.
C26_AdmittedUsersAreParticipants ==
  (tasks = EmptyBag) =>
    \A c \in Conns :
      (/\ Open(c)
       /\ polls[conn[c].auth.pollID] # Null
       /\ ~polls[conn[c].auth.pollID].hasStarted)
      => conn[c].auth.userID \in DOMAIN polls[conn[c].auth.pollID].participants
\* Several polls side by side.  The state after MaxSessions calls of
\* createPoll, each by its own creator; then the creators rejoin over HTTP,
\* their sockets connect, send messages and disconnect, and any poll's key
\* may expire.
Sessions == 1..MaxSessions

InitSessions ==
  /\ polls = [p \in Sessions |-> InitialPoll(p, "lunch", 2, p)]
  /\ nextPoll = MaxSessions
  /\ nextUser = MaxSessions
  /\ nextNom = 0
  /\ tokens = {Sign(p, "Alice", p) : p \in Sessions}
  /\ conn = [c \in Conns |-> [status |-> "idle", auth |-> NoAuth]]
  /\ rooms = [p \in Sessions |-> {}]
  /\ tasks = EmptyBag
  /\ out = NoOut
  /\ client = [c \in Conns |-> Undefined]

NextSessions ==
  \/ \E token \in tokens : RejoinPoll(token)
  \/ \E token \in tokens : HandleConnection(token)
  \/ \E c \in Conns : HandleDisconnect(c)
  \/ \E c \in Conns, u \in UserIDs : RemoveParticipantMsg(c, u)
  \/ \E c \in Conns, text \in Texts : NominateMsg(c, text)
  \/ \E c \in Conns, n \in NomIDs : RemoveNominationMsg(c, n)
  \/ \E k \in InFlight :
       \/ HandleConnectionEmit(k)
       \/ HandleDisconnectEmit(k)
       \/ RemoveParticipantEmit(k)
       \/ NominateEmit(k)
       \/ RemoveNominationEmit(k)
       \/ RejoinPollReturn(k)
  \/ ParticipantStep
  \/ NominationStep
  \/ \E p \in Sessions : Expire(p)

SpecSessions == InitSessions /\ [][NextSessions]_vars

\* C27: a step of a handler that runs for a socket of one poll leaves the
\* document of every other poll as it is, and a message sent in such a step
\* (poll_updated or exception) goes to sockets bound to that poll only, never
\* to a socket that is in another poll's room.
C27_SessionsAreIsolated ==
  [][/\ \A k \in InFlight \cup BagToSet(tasks') :
          (Moved(k) \/ Started(k))
          => \A p \in Sessions : p # k.pollID => polls'[p] = polls[p]
     /\ (out'.type = "emit")
          => /\ \A c \in out'.to : conn[c].auth.pollID = out'.from.pollID
             /\ \A p \in Sessions :
                  p # out'.from.pollID => out'.to \cap rooms[p] = {}
    ]_vars

\* poll 1 got a nomination and its room was just told, while poll 2 has an
\* admitted socket and no nomination
C27_Witness ==
  /\ out.type = "emit"
  /\ out.name = "poll_updated"
  /\ out.from.caller = "nominate"
  /\ out.from.pollID = 1
  /\ out.to # {}
  /\ out.to = rooms[1]
  /\ rooms[2] # {}
  /\ HasEntry(polls[2], 2, "Alice")
  /\ Truthy(polls[1])
  /\ polls[1].nominations # EmptyMap
  /\ polls[2].nominations = EmptyMap
=============================================================================
